---- MODULE Spec2Model ----
\* OpenASIO driver lifecycle and RT transport: the three drivers (alsa17h and
\* umc202hd, pull-model with a driver-owned worker thread; cpal, callback-model
\* with backend-owned streams), one control thread issuing vtable calls, and
\* the RT threads that invoke the host process callback.
EXTENDS Integers, FiniteSets, Sequences, TLC

\* ---------------------------------------------------------------- bounds
\* Number of start calls the control thread issues (also bounds RT thread ids).
MaxStarts == 2
\* Number of EPIPE (xrun) events the devices deliver within one stream.
MaxXruns == 1

\* Longest device list (in bytes) handed to query_devices.
MaxList == 3

\* ------------------------------------------------------- program constants
OA_OK == 0
OA_ERR_UNSUPPORTED == -2
OA_ERR_INVALID_ARG == -3
OA_ERR_DEVICE == -4
OA_ERR_BACKEND == -5

I32_MAX == 2147483647
I32_MIN == -I32_MAX - 1

Kinds == {"alsa17h", "umc202hd", "cpal"}
PullKinds == {"alsa17h", "umc202hd"}

SUPPORTED_SAMPLE_RATES == {44100, 48000, 88200, 96000, 176400, 192000}

\* oa_stream_config values.
MkCfg(sr, bf, ich, och, fmt, lay) ==
  [sample_rate |-> sr, buffer_frames |-> bf, in_channels |-> ich,
   out_channels |-> och, format |-> fmt, layout |-> lay]

\* The cfg held by a freshly created driver.
InitCfg(k) ==
  IF k = "cpal" THEN MkCfg(48000, 256, 0, 2, "F32", "I")
  ELSE MkCfg(48000, 128, 2, 2, "F32", "I")

\* Configs the host passes to start: inside and outside the UMC202HD matrix.
Cfgs ==
  { MkCfg(48000, 2, 2, 2, "F32", "I"),
    MkCfg(44100, 1, 0, 2, "F32", "N"),
    MkCfg(12345, 2, 2, 2, "F32", "I"),
    MkCfg(48000, 2, 0, 2, "I16", "I"),
    MkCfg(48000, 2, 1, 1, "F32", "I"),
    MkCfg(48000, 0, 0, 2, "F32", "I") }

\* Arguments of start: a null pointer or a pointer to a config.
StartArgs ==
  {[null |-> TRUE, c |-> MkCfg(0, 0, 0, 0, "F32", "I")]}
    \cup {[null |-> FALSE, c |-> x] : x \in Cfgs}

NoArg == [null |-> TRUE, c |-> MkCfg(0, 0, 0, 0, "F32", "I")]

\* Device names the host passes to open_device ("" is the null pointer).
Names == {"", "hw:1,0"}

\* Block lengths (in frames) the cpal backend hands to the output callback.
BackendFrames == {1, 2}

Tids == 1..MaxStarts

Max2(a, b) == IF a > b THEN a ELSE b

VARIABLES
  kind,        \* which driver library is loaded
  host_ptr,    \* alsa17h: state.host, the pointer kept from create ("valid" |
               \* "dangling" once the host has freed its table); the other
               \* drivers keep a copy of the table ("copy")
  d,           \* data path: one data operation and its buffers
  alive,       \* "live" | "freed" (after destroy) | "aborted" (panic in extern "C")
               \* | "leaked" (wrapper dropped, driver never destroyed)
  ctl_op,      \* control thread: vtable call in progress ("none" when idle)
  ctl_pc,      \* control thread: position inside the call
  ctl_arg,     \* control thread: argument of the start call
  last,        \* last returned call: [op, rc]
  dev_name,    \* pull: state.dev_name ("" = None); cpal: "" = out_device None
  in_device,   \* cpal: state.in_device is Some
  io,          \* pull: [cap, pb] handles present
  cfg,         \* state.cfg
  underruns, overruns,
  in_buf_len, out_buf_len,
  in_seq,      \* cpal: state.in_seq, input blocks stored since start (0, or 1
               \* for any positive count)
  in_data,     \* cpal: what in_buf holds: "zeros" | "captured" samples
  running,     \* pull: state.running
  worker,      \* pull: state.worker (0 = None, else thread id)
  out_stream,  \* cpal: state.out_stream (0 = None, else stream id)
  in_stream,   \* cpal: state.in_stream (0 = None, else stream id)
  rt,          \* RT threads: pull workers / cpal output streams, by id
  starts,      \* number of start calls issued
  spawns,      \* number of RT threads created
  g            \* history of the run, read by the properties only

vars == <<kind, host_ptr, d, in_seq, in_data, alive, ctl_op, ctl_pc, ctl_arg, last, dev_name, in_device, io,
          cfg, underruns, overruns, in_buf_len, out_buf_len, running, worker,
          out_stream, in_stream, rt, starts, spawns, g>>

\* Everything but the data path.
life_vars == <<kind, host_ptr, in_seq, in_data, alive, ctl_op, ctl_pc, ctl_arg, last, dev_name,
               in_device, io, cfg, underruns, overruns, in_buf_len, out_buf_len,
               running, worker, out_stream, in_stream, rt, starts, spawns, g>>

drv_vars == <<dev_name, in_device, io, cfg, underruns, overruns, in_buf_len,
              out_buf_len, running, worker, out_stream, in_stream>>

\* What state.host can be after create: alsa17h stores the pointer it was
\* given, and the host may keep its table alive or free it (a table local to
\* the function that called create is gone when that function returns);
\* umc202hd and cpal store a copy of the table.
HostPointers(k) == IF k = "alsa17h" THEN {"valid", "dangling"} ELSE {"copy"}

\* No data operation has been made.
NoData == [op |-> "none"]

\* The fields of DriverState, as one value.
DriverState ==
  [dev_name |-> dev_name, in_device |-> in_device, io |-> io, cfg |-> cfg,
   underruns |-> underruns, overruns |-> overruns, in_buf_len |-> in_buf_len,
   out_buf_len |-> out_buf_len, running |-> running, worker |-> worker,
   out_stream |-> out_stream, in_stream |-> in_stream]

NoIo == [cap |-> FALSE, pb |-> FALSE]

\* A create that opens the default playback device at once.
CreatedIo_Default == [cap |-> FALSE, pb |-> TRUE]

\* The device handles of a freshly created driver: cap None, pb None.
CreatedIo == NoIo

\* The value of g.pre outside a stop call.
NoSnap ==
  [dev_name |-> "", in_device |-> FALSE, io |-> NoIo, cfg |-> NoArg.c,
   underruns |-> 0, overruns |-> 0, in_buf_len |-> 0, out_buf_len |-> 0,
   running |-> FALSE, worker |-> 0, out_stream |-> 0, in_stream |-> 0]

\* An RT thread that was never created.
NoThread ==
  [pc |-> "none", first |-> TRUE, calls |-> 0, frames |-> 0,
   ti |-> [underruns |-> 0, overruns |-> 0], prev_ti |-> [underruns |-> 0, overruns |-> 0],
   epipes |-> 0, start_frames |-> 0, start_och |-> 0, saw_false |-> FALSE,
   got_false |-> FALSE,   \* got_false: the latest process call returned false
   delivered |-> TRUE,    \* the block of the latest process call was written
   fatal |-> FALSE]       \* the device call just made failed, not with EPIPE

\* An RT thread that has finished (saw_false: it left its loop on reading
\* running = false).
ExitedThread(saw) == [NoThread EXCEPT !.pc = "exited", !.saw_false = saw]

\* RT threads that exist and have not finished.
LiveRT == {t \in Tids : rt[t].pc \notin {"none", "exited"}}
InProcess == {t \in Tids : rt[t].pc = "in_process"}

\* A newly spawned worker / newly played output stream, for start config c.
FreshThread(c) ==
  [NoThread EXCEPT !.pc = IF kind = "cpal" THEN "idle" ELSE "top",
                   !.start_frames = c.buffer_frames,
                   !.start_och = c.out_channels]

Init ==
  /\ kind \in Kinds
  /\ host_ptr \in HostPointers(kind)
  /\ d = NoData
  /\ alive = "live"
  /\ ctl_op = "none" /\ ctl_pc = "idle" /\ ctl_arg = NoArg
  /\ last = [op |-> "create", rc |-> OA_OK]
  /\ dev_name = "" /\ in_device = FALSE
  /\ io = CreatedIo
  /\ cfg = InitCfg(kind)
  /\ underruns = 0 /\ overruns = 0
  /\ in_buf_len = 0 /\ out_buf_len = 0
  /\ in_seq = 0 /\ in_data = "zeros"
  /\ running = FALSE /\ worker = 0
  /\ out_stream = 0 /\ in_stream = 0
  /\ rt = [t \in Tids |-> NoThread]
  /\ starts = 0 /\ spawns = 0
  /\ g = [quiet |-> FALSE, uaf |-> FALSE, opened |-> 0, spawned |-> FALSE,
          pre |-> NoSnap, stop_from |-> "n/a", stop_same |-> TRUE,
          off_matrix |-> FALSE, dirty |-> FALSE, used |-> FALSE,
          unreleased |-> 0]

\* ------------------------------------------------------------- RT threads
\* Every RT step reads driver state through the raw driver pointer; a step
\* taken after the driver was freed is a use after free.
Touch == [g EXCEPT !.uaf = g.uaf \/ alive = "freed"]

\* driver_thread, loop head: the Acquire load of running, then the reads of
\* cfg for this period.
WorkerTop(t) ==
  /\ kind \in PullKinds /\ alive # "aborted"
  /\ rt[t].pc = "top"
  /\ rt' = IF running
           THEN [rt EXCEPT ![t].pc = "read", ![t].calls = 0,
                           ![t].frames = cfg.buffer_frames,
                           ![t].fatal = FALSE]
           ELSE [rt EXCEPT ![t] = ExitedThread(TRUE)]
  /\ g' = Touch
  /\ UNCHANGED <<kind, host_ptr, d, in_seq, in_data, alive, ctl_op, ctl_pc, ctl_arg, last, drv_vars, starts, spawns>>

\* The counter a capture EPIPE increments. (The counters are AtomicU32; a
\* stream sees at most MaxXruns xruns here, so fetch_add never wraps.)
CaptureXrun(k) == IF k = "alsa17h" THEN "underruns" ELSE "overruns"

\* driver_thread, capture: blocking readi when a capture handle is present.
WorkerRead(t) ==
  /\ kind \in PullKinds /\ alive # "aborted"
  /\ rt[t].pc = "read"
  /\ \E res \in {"ok", "epipe", "err"} :
       /\ (res # "ok") => io.cap
       /\ (res = "epipe") => rt[t].epipes < MaxXruns
       /\ rt' = [rt EXCEPT ![t].pc = "call",
                           ![t].fatal = (res = "err"),
                           ![t].epipes = IF res = "epipe" THEN @ + 1 ELSE @]
       /\ underruns' = IF res = "epipe" /\ CaptureXrun(kind) = "underruns"
                       THEN underruns + 1 ELSE underruns
       /\ overruns' = IF res = "epipe" /\ CaptureXrun(kind) = "overruns"
                      THEN overruns + 1 ELSE overruns
  /\ g' = Touch
  /\ UNCHANGED <<kind, host_ptr, d, in_seq, in_data, alive, ctl_op, ctl_pc, ctl_arg, last, dev_name, in_device,
                 io, cfg, in_buf_len, out_buf_len, running, worker, out_stream,
                 in_stream, starts, spawns>>

\* The oa_time_info counters built for one process call.
TimeInfo == [underruns |-> underruns, overruns |-> overruns]

\* Whether the RT thread finds the process callback by reading through the
\* host's table (alsa17h: &*driver.state.host) or in the driver's own copy.
ReadsHostPointer(k) == k = "alsa17h"

\* Outcomes of looking up process. A read through a dangling pointer is
\* undefined: the memory may still hold the callback ("call"), hold a null
\* ("skip": no process call this period) or hold anything else ("crash").
HostTableRead(k, p) ==
  IF ReadsHostPointer(k) /\ p = "dangling" THEN {"call", "skip", "crash"}
  ELSE {"call"}

\* driver_thread: build the time info, look up and invoke host.process.
WorkerCall(t) ==
  /\ kind \in PullKinds /\ alive # "aborted"
  /\ rt[t].pc = "call"
  /\ \E o \in HostTableRead(kind, host_ptr) :
       /\ rt' = CASE o = "call" ->
                      [rt EXCEPT ![t].pc = "in_process", ![t].calls = @ + 1,
                                 ![t].prev_ti = rt[t].ti, ![t].ti = TimeInfo,
                                 ![t].delivered = FALSE, ![t].fatal = FALSE]
                  [] o = "skip" -> [rt EXCEPT ![t].pc = "write", ![t].fatal = FALSE]
                  [] OTHER -> rt
       /\ alive' = IF o = "crash" THEN "aborted" ELSE alive
  /\ g' = Touch
  /\ UNCHANGED <<kind, host_ptr, d, in_seq, in_data, ctl_op, ctl_pc, ctl_arg, last, drv_vars, starts, spawns>>

\* What the worker does with the value process returned: the position it
\* continues at, and whether it clears running.
AfterProcess(k, keep) ==
  IF k = "umc202hd" /\ ~keep THEN [pc |-> "top", clear |-> TRUE]
  ELSE [pc |-> "write", clear |-> FALSE]

\* host.process returns to the worker.
WorkerProcessReturn(t) ==
  /\ kind \in PullKinds /\ alive # "aborted"
  /\ rt[t].pc = "in_process"
  /\ \E keep \in BOOLEAN :
       LET a == AfterProcess(kind, keep) IN
       /\ rt' = [rt EXCEPT ![t].pc = a.pc,
                           ![t].got_false = ~keep,
                           ![t].first = IF a.pc = "top" THEN FALSE ELSE @]
       /\ running' = IF a.clear THEN FALSE ELSE running
  /\ g' = Touch
  /\ UNCHANGED <<kind, host_ptr, d, in_seq, in_data, alive, ctl_op, ctl_pc, ctl_arg, last, dev_name, in_device,
                 io, cfg, underruns, overruns, in_buf_len, out_buf_len, worker,
                 out_stream, in_stream, starts, spawns>>

\* A playback write that treats an EPIPE as the end of the stream.
WorkerWrite_EpipeStops(t) ==
  /\ kind \in PullKinds /\ alive # "aborted"
  /\ rt[t].pc = "write"
  /\ \E res \in {"ok", "epipe", "err"} :
       /\ (res # "ok") => io.pb
       /\ (res = "epipe") => rt[t].epipes < MaxXruns
       /\ rt' = [rt EXCEPT ![t].pc = "top", ![t].first = FALSE,
                           ![t].delivered = (@ \/ io.pb),
                           ![t].fatal = (res = "err"),
                           ![t].epipes = IF res = "epipe" THEN @ + 1 ELSE @]
       /\ underruns' = IF res = "epipe" THEN underruns + 1 ELSE underruns
       /\ running' = IF res = "epipe" THEN FALSE ELSE running
  /\ g' = Touch
  /\ UNCHANGED <<kind, host_ptr, d, in_seq, in_data, alive, ctl_op, ctl_pc, ctl_arg, last, dev_name, in_device,
                 io, cfg, overruns, in_buf_len, out_buf_len, worker,
                 out_stream, in_stream, starts, spawns>>

\* driver_thread, playback: blocking writei when a playback handle is present;
\* on EPIPE prepare() and underruns.fetch_add(1); any other error is dropped.
WorkerWrite(t) ==
  /\ kind \in PullKinds /\ alive # "aborted"
  /\ rt[t].pc = "write"
  /\ \E res \in {"ok", "epipe", "err"} :
       /\ (res # "ok") => io.pb
       /\ (res = "epipe") => rt[t].epipes < MaxXruns
       /\ rt' = [rt EXCEPT ![t].pc = "top", ![t].first = FALSE,
                           ![t].delivered = (@ \/ io.pb),
                           ![t].fatal = (res = "err"),
                           ![t].epipes = IF res = "epipe" THEN @ + 1 ELSE @]
       /\ underruns' = IF res = "epipe" THEN underruns + 1 ELSE underruns
  /\ g' = Touch
  /\ UNCHANGED <<kind, host_ptr, d, in_seq, in_data, alive, ctl_op, ctl_pc, ctl_arg, last, dev_name, in_device,
                 io, cfg, overruns, in_buf_len, out_buf_len, running, worker,
                 out_stream, in_stream, starts, spawns>>

\* cpal output callback, entry: frames comes from the backend's block length
\* (n frames of the channel count the stream was built with); the callback
\* then invokes host.process.
CallbackFrames(data_len, och) == data_len \div Max2(och, 1)

OutputCallback(t) ==
  /\ kind = "cpal" /\ alive # "aborted"
  /\ rt[t].pc = "idle"
  /\ \E n \in BackendFrames :
       rt' = [rt EXCEPT ![t].pc = "in_process", ![t].calls = 1,
                        ![t].frames = CallbackFrames(n * rt[t].start_och, cfg.out_channels),
                        ![t].prev_ti = rt[t].ti, ![t].ti = TimeInfo]
  /\ g' = Touch
  /\ UNCHANGED <<kind, host_ptr, d, in_seq, in_data, alive, ctl_op, ctl_pc, ctl_arg, last, drv_vars, starts, spawns>>

\* cpal output callback, after host.process returned: the value is dropped
\* (_keep), the planes are interleaved and the callback returns.
OutputCallbackReturn(t) ==
  /\ kind = "cpal" /\ alive # "aborted"
  /\ rt[t].pc = "in_process"
  /\ \E keep \in BOOLEAN :
       rt' = [rt EXCEPT ![t].pc = "idle", ![t].first = FALSE,
                        ![t].got_false = ~keep]
  /\ g' = Touch
  /\ UNCHANGED <<kind, host_ptr, d, in_seq, in_data, alive, ctl_op, ctl_pc, ctl_arg, last, drv_vars, starts, spawns>>

\* cpal input callback of the live input stream (in_stream is the channel
\* count the stream was built with): grows in_buf when the block is longer,
\* copies the block into in_buf and counts it in in_seq.
InputCallback ==
  /\ kind = "cpal" /\ alive # "aborted"
  /\ in_stream # 0
  /\ \E n \in BackendFrames :
       LET ch == Max2(cfg.in_channels, 1)
           frames == (n * in_stream) \div ch
           len == frames * ch
       IN in_buf_len' = IF in_buf_len < len THEN len ELSE in_buf_len
  /\ in_data' = "captured"
  /\ in_seq' = 1
  /\ g' = Touch
  /\ UNCHANGED <<kind, host_ptr, d, alive, ctl_op, ctl_pc, ctl_arg, last, dev_name, in_device,
                 io, cfg, underruns, overruns, out_buf_len, running, worker,
                 out_stream, in_stream, rt, starts, spawns>>

\* ---------------------------------------------------------- control thread
Idle == alive = "live" /\ ctl_pc = "idle"

\* While a vtable call is in progress nothing has been returned.
NoLast == [op |-> "none", rc |-> OA_OK]

\* A vtable call returns rc to the host.
Return(op, rc) ==
  /\ ctl_op' = "none" /\ ctl_pc' = "idle"
  /\ ctl_arg' = NoArg
  /\ last' = [op |-> op, rc |-> rc]

\* How the driver stands when a vtable call is made.
StopFrom ==
  IF kind = "cpal"
  THEN (IF out_stream # 0 \/ in_stream # 0 THEN "running" ELSE "stopped")
  ELSE IF running THEN "running"
  ELSE IF worker # 0 THEN "worker_unreaped"
  ELSE "stopped"

\* The history record at the start of a vtable call: what is remembered of
\* the previous call is forgotten.
CallHistory(from) ==
  [g EXCEPT !.opened = 0, !.spawned = FALSE, !.pre = NoSnap, !.stop_from = from,
            !.stop_same = TRUE, !.off_matrix = FALSE, !.dirty = FALSE,
            !.unreleased = 0]

\* The device matrix of the UMC202HD: F32, 2 playback channels, 0 or 2 capture
\* channels, one of the six rates.
InMatrix(c) ==
  /\ c.format = "F32"
  /\ c.out_channels = 2
  /\ c.in_channels \in {0, 2}
  /\ c.sample_rate \in {44100, 48000, 88200, 96000, 176400, 192000}

\* The device name open_device stores (pull-model): alsa17h keeps None for a
\* null name, umc202hd resolves the default name at once.
OpenedName(k, name) ==
  IF name # "" THEN name
  ELSE IF k = "umc202hd" THEN "hw:UMC202HD" ELSE ""

\* open_device(name). cpal looks the device up and fails with DEVICE when no
\* output device matches; dev_name # "" stands for out_device = Some.
OpenDevice ==
  /\ Idle
  /\ \E name \in Names :
       \/ /\ kind \in PullKinds
          /\ dev_name' = OpenedName(kind, name)
          /\ in_device' = in_device
          /\ Return("open_device", OA_OK)
       \/ /\ kind = "cpal"
          /\ \E found \in BOOLEAN, inp \in BOOLEAN :
               IF found
               THEN /\ dev_name' = "out"
                    /\ in_device' = inp
                    /\ Return("open_device", OA_OK)
               ELSE /\ UNCHANGED <<dev_name, in_device>>
                    /\ Return("open_device", OA_ERR_DEVICE)
  /\ g' = [CallHistory("n/a") EXCEPT !.used = TRUE]
  /\ UNCHANGED <<kind, host_ptr, d, in_seq, in_data, alive, io, cfg, underruns, overruns, in_buf_len, out_buf_len,
                 running, worker, out_stream, in_stream, rt, starts, spawns>>

\* The host calls start(cfg).
StartCall ==
  /\ Idle /\ starts < MaxStarts
  /\ last' = NoLast
  /\ \E a \in StartArgs : ctl_arg' = a
  /\ ctl_op' = "start" /\ ctl_pc' = "entry"
  /\ starts' = starts + 1
  /\ g' = [CallHistory(StopFrom) EXCEPT
                    !.off_matrix = ~ctl_arg'.null /\ ~InMatrix(ctl_arg'.c),
                    !.dirty = underruns + overruns > 0,
                    !.used = TRUE]
  /\ UNCHANGED <<kind, host_ptr, d, in_seq, in_data, alive, drv_vars, rt, spawns>>

\* validate_config without the sample-rate check.
ValidateConfig_NoRate(c) ==
  /\ c.format = "F32"
  /\ c.out_channels = 2
  /\ c.in_channels \in {0, 2}
  /\ c.buffer_frames # 0

\* validate_config (umc202hd): the device matrix.
ValidateConfig(c) ==
  /\ c.format = "F32"
  /\ c.out_channels = 2
  /\ c.in_channels \in {0, 2}
  /\ c.sample_rate \in SUPPORTED_SAMPLE_RATES
  /\ c.buffer_frames # 0

\* What start does with its argument before anything else: return a result
\* code at once, crash (cpal dereferences cfg unchecked), or go on.
StartEntryCheck(k, a, has_device) ==
  IF k = "cpal"
  THEN IF ~has_device THEN [act |-> "return", rc |-> OA_ERR_DEVICE]
       ELSE IF a.null THEN [act |-> "crash", rc |-> OA_OK]
       ELSE [act |-> "go", rc |-> OA_OK]
  ELSE IF a.null THEN [act |-> "return", rc |-> OA_ERR_INVALID_ARG]
       ELSE IF k = "umc202hd" /\ ~ValidateConfig(a.c)
       THEN [act |-> "return", rc |-> OA_ERR_UNSUPPORTED]
       ELSE [act |-> "go", rc |-> OA_OK]

\* start, entry: argument checks; then the implicit stop (pull-model) or the
\* config write (cpal).
StartEntry ==
  /\ alive = "live" /\ ctl_op = "start" /\ ctl_pc = "entry"
  /\ LET r == StartEntryCheck(kind, ctl_arg, dev_name # "") IN
       CASE r.act = "go" ->
              /\ ctl_pc' = IF kind = "cpal" THEN "config" ELSE "store"
              /\ UNCHANGED <<alive, ctl_op, ctl_arg, last>>
         [] r.act = "crash" ->
              /\ alive' = "aborted"
              /\ UNCHANGED <<ctl_op, ctl_pc, ctl_arg, last>>
         [] OTHER ->
              /\ Return("start", r.rc)
              /\ alive' = alive
  /\ UNCHANGED <<kind, host_ptr, d, in_seq, in_data, drv_vars, rt, starts, spawns, g>>

\* stop_worker that joins without clearing running.
StopWorkerStore_NoStore ==
  /\ alive = "live" /\ kind \in PullKinds /\ ctl_pc = "store"
  /\ ctl_pc' = "join"
  /\ UNCHANGED <<kind, host_ptr, d, in_seq, in_data, alive, ctl_op, ctl_arg, last, drv_vars, rt, starts, spawns, g>>

\* stop_worker, first half: running.store(false, Release).
StopWorkerStore ==
  /\ alive = "live" /\ kind \in PullKinds /\ ctl_pc = "store"
  /\ running' = FALSE
  /\ ctl_pc' = "join"
  /\ UNCHANGED <<kind, host_ptr, d, in_seq, in_data, alive, ctl_op, ctl_arg, last, dev_name, in_device, io, cfg,
                 underruns, overruns, in_buf_len, out_buf_len, worker, out_stream,
                 in_stream, rt, starts, spawns, g>>

\* Where a pull-model call continues after stop_worker.
AfterStopWorker(k, op) ==
  IF op = "start" THEN (IF k = "alsa17h" THEN "config" ELSE "open")
  ELSE IF op = "destroy" THEN "free"
  ELSE "release"

\* stop_worker that takes the handle and drops it without joining (the thread
\* is detached).
StopWorkerJoin_Detach ==
  /\ alive = "live" /\ kind \in PullKinds /\ ctl_pc = "join"
  /\ worker' = 0
  /\ ctl_pc' = AfterStopWorker(kind, ctl_op)
  /\ UNCHANGED <<kind, host_ptr, d, in_seq, in_data, alive, ctl_op, ctl_arg, last, dev_name, in_device, io, cfg,
                 underruns, overruns, in_buf_len, out_buf_len, running, out_stream,
                 in_stream, rt, starts, spawns, g>>

\* stop_worker, second half: worker.take() and join, which returns once the
\* worker thread has finished.
StopWorkerJoin ==
  /\ alive = "live" /\ kind \in PullKinds /\ ctl_pc = "join"
  /\ worker # 0 => rt[worker].pc = "exited"
  /\ worker' = 0
  /\ ctl_pc' = AfterStopWorker(kind, ctl_op)
  /\ UNCHANGED <<kind, host_ptr, d, in_seq, in_data, alive, ctl_op, ctl_arg, last, dev_name, in_device, io, cfg,
                 underruns, overruns, in_buf_len, out_buf_len, running, out_stream,
                 in_stream, rt, starts, spawns, g>>

\* Staging buffer lengths start sizes for a config.
InLen(c) == c.buffer_frames * Max2(c.in_channels, 1)
OutLen(c) == c.buffer_frames * c.out_channels

\* start (alsa17h), after the implicit stop: drop the handles, store the
\* config, reset the counters.
StartConfigAlsa ==
  /\ alive = "live" /\ kind = "alsa17h" /\ ctl_op = "start" /\ ctl_pc = "config"
  /\ io' = NoIo
  /\ cfg' = ctl_arg.c
  /\ underruns' = 0 /\ overruns' = 0
  /\ ctl_pc' = "open"
  /\ UNCHANGED <<kind, host_ptr, d, in_seq, in_data, alive, ctl_op, ctl_arg, last, dev_name, in_device, in_buf_len,
                 out_buf_len, running, worker, out_stream, in_stream, rt, starts,
                 spawns, g>>

\* Outcomes of opening and configuring the devices in start: PCM::new of the
\* playback or the capture handle fails, hw_setup fails, or all succeed.
OpenOutcomes(c) ==
  {"ok", "pb_fails", "hw_fails"} \cup (IF c.in_channels > 0 THEN {"cap_fails"} ELSE {})

\* Handles start has opened when it reaches the given outcome.
OpenedBy(outcome, c) ==
  CASE outcome = "pb_fails" -> 0
    [] outcome = "cap_fails" -> 1
    [] OTHER -> IF c.in_channels > 0 THEN 2 ELSE 1

OpenRc(outcome) ==
  CASE outcome = "ok" -> OA_OK
    [] outcome = "hw_fails" -> OA_ERR_BACKEND
    [] OTHER -> OA_ERR_DEVICE

\* A start that never resets the counters.
ResetsAtInstall_Never(k) == FALSE

\* Whether start resets the counters when it installs the stream (umc202hd;
\* alsa17h has reset them in StartConfigAlsa).
ResetsAtInstall(k) == k = "umc202hd"

\* io after a start that installs the playback handle as soon as it is
\* opened and leaves it there when a later step fails.
IoAfterFailure_KeepsPb(outcome) == [cap |-> FALSE, pb |-> outcome # "pb_fails"]

\* io when start returns DEVICE or BACKEND: both fields were set to None
\* after stop_worker and nothing has been installed since.
IoAfterFailure(outcome) == NoIo

\* Handles a failing start closes at its early return: pb and cap are locals,
\* dropped (and so closed) by the return.
DroppedAtReturn(outcome, c) == OpenedBy(outcome, c)

\* start (pull-model): open and configure the devices; on success size the
\* buffers, install config and handles and set running; on failure return.
StartOpen ==
  /\ alive = "live" /\ kind \in PullKinds /\ ctl_op = "start" /\ ctl_pc = "open"
  /\ \E outcome \in OpenOutcomes(ctl_arg.c) :
       LET c == ctl_arg.c IN
       IF outcome = "ok"
       THEN /\ in_buf_len' = InLen(c)
            /\ out_buf_len' = OutLen(c)
            /\ cfg' = c
            /\ underruns' = IF ResetsAtInstall(kind) THEN 0 ELSE underruns
            /\ overruns' = IF ResetsAtInstall(kind) THEN 0 ELSE overruns
            /\ io' = [pb |-> TRUE, cap |-> c.in_channels > 0]
            /\ running' = TRUE
            /\ ctl_pc' = "spawn"
            /\ g' = [g EXCEPT !.opened = OpenedBy(outcome, c)]
            /\ UNCHANGED <<ctl_op, ctl_arg, last>>
       ELSE /\ io' = IoAfterFailure(outcome)
            /\ UNCHANGED <<in_buf_len, out_buf_len, cfg, underruns, overruns, running>>
            /\ g' = [g EXCEPT !.opened = OpenedBy(outcome, c),
                              !.spawned = FALSE,
                              !.unreleased = OpenedBy(outcome, c) - DroppedAtReturn(outcome, c)]
            /\ Return("start", OpenRc(outcome))
  /\ UNCHANGED <<kind, host_ptr, d, in_seq, in_data, alive, dev_name, in_device, out_stream,
                 in_stream, worker, rt, starts, spawns>>

\* start (pull-model), last step: spawn the worker, keep its handle, return OK.
StartSpawn ==
  /\ alive = "live" /\ kind \in PullKinds /\ ctl_op = "start" /\ ctl_pc = "spawn"
  /\ worker' = spawns + 1
  /\ rt' = [rt EXCEPT ![spawns + 1] = FreshThread(cfg)]
  /\ spawns' = spawns + 1
  /\ g' = [g EXCEPT !.spawned = TRUE, !.quiet = FALSE]
  /\ Return("start", OA_OK)
  /\ UNCHANGED <<kind, host_ptr, d, in_seq, in_data, alive, dev_name, in_device, io, cfg,
                 underruns, overruns, in_buf_len, out_buf_len, running, out_stream,
                 in_stream, starts>>

\* What in_buf holds after Vec::resize(len, 0.0): the cells it had keep
\* their content, only new cells are 0.0.
Resized(data, len) == IF len = 0 THEN "zeros" ELSE data

\* start (cpal): store the config, size the input staging buffer and reset
\* in_seq; the streams of an earlier start are still installed.
StartConfigCpal ==
  /\ alive = "live" /\ kind = "cpal" /\ ctl_op = "start" /\ ctl_pc = "config"
  /\ cfg' = ctl_arg.c
  /\ in_buf_len' = InLen(ctl_arg.c)
  /\ in_data' = Resized(in_data, InLen(ctl_arg.c))
  /\ in_seq' = 0
  /\ ctl_pc' = "in"
  /\ UNCHANGED <<kind, host_ptr, d, alive, ctl_op, ctl_arg, last, dev_name, in_device, io,
                 underruns, overruns, out_buf_len, running, worker, out_stream,
                 in_stream, rt, starts, spawns, g>>

\* start (cpal): build and play the input stream when an input device is
\* present and in_channels > 0; a build or play failure panics (expect).
StartInput ==
  /\ alive = "live" /\ kind = "cpal" /\ ctl_op = "start" /\ ctl_pc = "in"
  /\ IF in_device /\ ctl_arg.c.in_channels > 0
     THEN \E res \in {"ok", "no_config", "panic"} :
            /\ in_stream' = IF res = "ok" THEN ctl_arg.c.in_channels ELSE in_stream
            /\ alive' = IF res = "panic" THEN "aborted" ELSE alive
            /\ ctl_pc' = IF res = "panic" THEN ctl_pc ELSE "out"
     ELSE /\ ctl_pc' = "out"
          /\ UNCHANGED <<in_stream, alive>>
  /\ UNCHANGED <<kind, host_ptr, d, in_seq, in_data, ctl_op, ctl_arg, last, dev_name, in_device, io, cfg, underruns,
                 overruns, in_buf_len, out_buf_len, running, worker, out_stream, rt,
                 starts, spawns, g>>

\* start (cpal): build and play the output stream; from play on the backend
\* thread of the new stream runs the output callback.
StartOutput ==
  /\ alive = "live" /\ kind = "cpal" /\ ctl_op = "start" /\ ctl_pc = "out"
  /\ \E res \in {"ok", "panic"} :
       IF res = "ok"
       THEN /\ rt' = [rt EXCEPT ![spawns + 1] = FreshThread(ctl_arg.c)]
            /\ spawns' = spawns + 1
            /\ ctl_pc' = "assign"
            /\ g' = [g EXCEPT !.quiet = FALSE, !.spawned = TRUE]
            /\ alive' = alive
       ELSE /\ alive' = "aborted"
            /\ UNCHANGED <<rt, spawns, ctl_pc, g>>
  /\ UNCHANGED <<kind, host_ptr, d, in_seq, in_data, ctl_op, ctl_arg, last, drv_vars, starts>>

\* Dropping a cpal stream stops it and waits for its callback to return.
CanDrop(sid) == sid # 0 => rt[sid].pc \in {"idle", "exited"}
Dropped(sid) == IF sid = 0 THEN rt ELSE [rt EXCEPT ![sid] = ExitedThread(FALSE)]

\* start (cpal): out_stream = Some(ostream) drops the stream installed before.
StartAssign ==
  /\ alive = "live" /\ kind = "cpal" /\ ctl_op = "start" /\ ctl_pc = "assign"
  /\ CanDrop(out_stream)
  /\ rt' = Dropped(out_stream)
  /\ out_stream' = spawns
  /\ Return("start", OA_OK)
  /\ UNCHANGED <<kind, host_ptr, d, in_seq, in_data, alive, dev_name, in_device, io, cfg, underruns,
                 overruns, in_buf_len, out_buf_len, running, worker, in_stream,
                 starts, spawns, g>>

\* A stop that drops the device handles first, without stop_worker.
StopCall_ReleaseFirst ==
  /\ Idle
  /\ last' = NoLast
  /\ ctl_op' = "stop"
  /\ ctl_pc' = IF kind = "cpal" THEN "drop_out" ELSE "release"
  /\ ctl_arg' = NoArg
  /\ g' = [CallHistory(StopFrom) EXCEPT !.pre = DriverState]
  /\ UNCHANGED <<kind, host_ptr, d, in_seq, in_data, alive, drv_vars, rt, starts, spawns>>

\* The host calls stop.
StopCall ==
  /\ Idle
  /\ last' = NoLast
  /\ ctl_op' = "stop"
  /\ ctl_pc' = IF kind = "cpal" THEN "drop_out" ELSE "store"
  /\ ctl_arg' = NoArg
  /\ g' = [CallHistory(StopFrom) EXCEPT !.pre = DriverState]
  /\ UNCHANGED <<kind, host_ptr, d, in_seq, in_data, alive, drv_vars, rt, starts, spawns>>

\* The host calls close_device.
CloseCall ==
  /\ Idle
  /\ last' = NoLast
  /\ ctl_op' = "close"
  /\ ctl_pc' = IF kind = "cpal" THEN "drop_out" ELSE "store"
  /\ ctl_arg' = NoArg
  /\ g' = CallHistory(StopFrom)
  /\ UNCHANGED <<kind, host_ptr, d, in_seq, in_data, alive, drv_vars, rt, starts, spawns>>

\* A destroy whose drop frees the driver without stopping the stream first.
DestroyCall_NoDrop ==
  /\ Idle
  /\ last' = NoLast
  /\ ctl_op' = "destroy"
  /\ ctl_pc' = "free"
  /\ ctl_arg' = NoArg
  /\ g' = CallHistory(StopFrom)
  /\ UNCHANGED <<kind, host_ptr, d, in_seq, in_data, alive, drv_vars, rt, starts, spawns>>

\* The host calls openasio_driver_destroy: Box::from_raw drops the driver.
DestroyCall ==
  /\ Idle
  /\ last' = NoLast
  /\ ctl_op' = "destroy"
  /\ ctl_pc' = IF kind = "cpal" THEN "drop_out" ELSE "store"
  /\ ctl_arg' = NoArg
  /\ g' = CallHistory(StopFrom)
  /\ UNCHANGED <<kind, host_ptr, d, in_seq, in_data, alive, drv_vars, rt, starts, spawns>>

\* A stop that also forgets the selected device name.
StopRelease_ClearsName ==
  /\ alive = "live" /\ kind \in PullKinds /\ ctl_op = "stop" /\ ctl_pc = "release"
  /\ io' = NoIo
  /\ dev_name' = ""
  /\ Return("stop", OA_OK)
  /\ UNCHANGED <<kind, host_ptr, d, in_seq, in_data, alive, in_device, cfg, underruns, overruns,
                 in_buf_len, out_buf_len, running, worker, out_stream, in_stream,
                 rt, starts, spawns>>
  /\ g' = [g EXCEPT !.quiet = TRUE, !.pre = NoSnap, !.stop_same = (DriverState' = g.pre)]

\* stop (pull-model), after stop_worker: drop both handles, return OK.
StopRelease ==
  /\ alive = "live" /\ kind \in PullKinds /\ ctl_op = "stop" /\ ctl_pc = "release"
  /\ io' = NoIo
  /\ Return("stop", OA_OK)
  /\ UNCHANGED <<kind, host_ptr, d, in_seq, in_data, alive, dev_name, in_device, cfg, underruns, overruns,
                 in_buf_len, out_buf_len, running, worker, out_stream, in_stream,
                 rt, starts, spawns>>
  /\ g' = [g EXCEPT !.quiet = TRUE, !.pre = NoSnap, !.stop_same = (DriverState' = g.pre)]

\* close_device (pull-model), after stop_worker: drop both handles, return OK.
CloseRelease ==
  /\ alive = "live" /\ kind \in PullKinds /\ ctl_op = "close" /\ ctl_pc = "release"
  /\ io' = NoIo
  /\ Return("close", OA_OK)
  /\ g' = [g EXCEPT !.quiet = TRUE]
  /\ UNCHANGED <<kind, host_ptr, d, in_seq, in_data, alive, dev_name, in_device, cfg, underruns, overruns,
                 in_buf_len, out_buf_len, running, worker, out_stream, in_stream,
                 rt, starts, spawns>>

\* stop / close_device / drop (cpal): out_stream = None.
DropOutStream ==
  /\ alive = "live" /\ kind = "cpal" /\ ctl_pc = "drop_out"
  /\ CanDrop(out_stream)
  /\ rt' = Dropped(out_stream)
  /\ out_stream' = 0
  /\ ctl_pc' = "drop_in"
  /\ UNCHANGED <<kind, host_ptr, d, in_seq, in_data, alive, ctl_op, ctl_arg, last, dev_name, in_device, io, cfg,
                 underruns, overruns, in_buf_len, out_buf_len, running, worker,
                 in_stream, starts, spawns, g>>

\* stop (cpal): in_stream = None, return OK.
StopDropIn ==
  /\ alive = "live" /\ kind = "cpal" /\ ctl_op = "stop" /\ ctl_pc = "drop_in"
  /\ in_stream' = 0
  /\ Return("stop", OA_OK)
  /\ UNCHANGED <<kind, host_ptr, d, in_seq, in_data, alive, dev_name, in_device, io, cfg, underruns,
                 overruns, in_buf_len, out_buf_len, running, worker, out_stream,
                 rt, starts, spawns>>
  /\ g' = [g EXCEPT !.quiet = TRUE, !.pre = NoSnap, !.stop_same = (DriverState' = g.pre)]

\* close_device (cpal): in_stream = None, both devices = None, return OK.
CloseDropIn ==
  /\ alive = "live" /\ kind = "cpal" /\ ctl_op = "close" /\ ctl_pc = "drop_in"
  /\ in_stream' = 0
  /\ dev_name' = "" /\ in_device' = FALSE
  /\ Return("close", OA_OK)
  /\ g' = [g EXCEPT !.quiet = TRUE]
  /\ UNCHANGED <<kind, host_ptr, d, in_seq, in_data, alive, io, cfg, underruns, overruns, in_buf_len,
                 out_buf_len, running, worker, out_stream, rt, starts, spawns>>

\* destroy (cpal): the drop of DriverState drops in_stream after out_stream.
DestroyDropIn ==
  /\ alive = "live" /\ kind = "cpal" /\ ctl_op = "destroy" /\ ctl_pc = "drop_in"
  /\ in_stream' = 0
  /\ ctl_pc' = "free"
  /\ UNCHANGED <<kind, host_ptr, d, in_seq, in_data, alive, ctl_op, ctl_arg, last, dev_name, in_device, io, cfg,
                 underruns, overruns, in_buf_len, out_buf_len, running, worker,
                 out_stream, rt, starts, spawns, g>>

\* destroy, last step: the remaining fields are dropped and the box is freed.
DestroyFree ==
  /\ alive = "live" /\ ctl_op = "destroy" /\ ctl_pc = "free"
  /\ alive' = "freed"
  /\ io' = NoIo
  /\ Return("destroy", OA_OK)
  /\ UNCHANGED <<kind, host_ptr, d, in_seq, in_data, dev_name, in_device, cfg, underruns, overruns,
                 in_buf_len, out_buf_len, running, worker, out_stream, in_stream,
                 rt, starts, spawns, g>>

\* A drop of the wrapper that frees its fields without calling close_device.
WrapperDropCall_NoClose ==
  /\ Idle
  /\ Return("drop", OA_OK)
  /\ alive' = "leaked"
  /\ g' = CallHistory(StopFrom)
  /\ UNCHANGED <<kind, host_ptr, d, in_seq, in_data, drv_vars, rt, starts, spawns>>

\* Drop for the host wrapper's Driver: the one call it makes is close_device.
WrapperDropCall ==
  /\ Idle
  /\ last' = NoLast
  /\ ctl_op' = "drop"
  /\ ctl_pc' = IF kind = "cpal" THEN "drop_out" ELSE "store"
  /\ ctl_arg' = NoArg
  /\ g' = CallHistory(StopFrom)
  /\ UNCHANGED <<kind, host_ptr, d, in_seq, in_data, alive, drv_vars, rt, starts, spawns>>

\* Drop of the wrapper (pull-model), end of its close_device call: then the
\* wrapper's fields go (the library is released, the thunk freed); the driver
\* object is never passed to openasio_driver_destroy.
WrapperDropRelease ==
  /\ alive = "live" /\ kind \in PullKinds /\ ctl_op = "drop" /\ ctl_pc = "release"
  /\ io' = NoIo
  /\ Return("drop", OA_OK)
  /\ alive' = "leaked"
  /\ g' = [g EXCEPT !.quiet = TRUE]
  /\ UNCHANGED <<kind, host_ptr, d, in_seq, in_data, dev_name, in_device, cfg, underruns, overruns,
                 in_buf_len, out_buf_len, running, worker, out_stream, in_stream,
                 rt, starts, spawns>>

\* Drop of the wrapper (cpal), end of its close_device call.
WrapperDropIn ==
  /\ alive = "live" /\ kind = "cpal" /\ ctl_op = "drop" /\ ctl_pc = "drop_in"
  /\ in_stream' = 0
  /\ dev_name' = "" /\ in_device' = FALSE
  /\ Return("drop", OA_OK)
  /\ alive' = "leaked"
  /\ g' = [g EXCEPT !.quiet = TRUE]
  /\ UNCHANGED <<kind, host_ptr, d, in_seq, in_data, io, cfg, underruns, overruns, in_buf_len,
                 out_buf_len, running, worker, out_stream, rt, starts, spawns>>

\* The wrapper's HostThunk (host_user of every process call) is a Box field
\* of the wrapper: it is freed when the wrapper's fields are dropped, after
\* Drop::drop has returned.
ThunkFreed == alive = "leaked"

\* What the wrapper hands its caller for a vtable result code: open_by_name
\* turns a negative code into Err; start discards the code; stop returns
\* nothing.
WrapperResult(op, rc) ==
  CASE op = "open_device" -> IF rc < 0 THEN "Err" ELSE "Ok"
    [] op = "start" -> "Ok"
    [] OTHER -> "unit"

\* get_caps: the capability bits a driver advertises.
CAPS(k) ==
  IF k = "alsa17h"
  THEN {"OUTPUT", "INPUT", "FULL_DUPLEX", "SET_SAMPLERATE", "SET_BUFFRAMES"}
  ELSE {"OUTPUT", "INPUT", "FULL_DUPLEX"}

Mutators == {"set_sample_rate", "set_buffer_frames"}

\* The capability bit that announces a mutator.
MutatorBit(op) == IF op = "set_sample_rate" THEN "SET_SAMPLERATE" ELSE "SET_BUFFRAMES"

\* set_sr / set_buf: every driver returns UNSUPPORTED whatever the argument.
SetResult(k, op) == OA_ERR_UNSUPPORTED

\* The host calls set_sample_rate or set_buffer_frames.
MutatorCall ==
  /\ Idle
  /\ \E op \in Mutators : Return(op, SetResult(kind, op))
  /\ UNCHANGED <<kind, host_ptr, d, in_seq, in_data, alive, drv_vars, rt, starts, spawns>>
  /\ g' = [CallHistory("n/a") EXCEPT !.stop_same = (DriverState' = DriverState)]

\* The device name start opens (pull-model): the selected name, else the
\* driver's default.
DefaultName(k) == IF k = "umc202hd" THEN "hw:UMC202HD" ELSE "default"
StartDeviceName == IF dev_name # "" THEN dev_name ELSE DefaultName(kind)

\* ----------------------------------------------------------------- data path
\* The data one call or one period moves, apart from the lifecycle: d holds
\* the inputs of one data operation and what it produced.

Min2(a, b) == IF a < b THEN a ELSE b

\* Bytes of a device list ('\n' and a letter), and the lists and buffer
\* lengths the host passes to query_devices.
Bytes == {10, 104}
DeviceLists == UNION {[1..n -> Bytes] : n \in 0..MaxList}
BufLens == 0..(MaxList + 2)

\* The host memory starting at buf, and the content of a cell that
\* query_devices has not written.
MemCells == 0..(MaxList + 2)
Untouched == -1

\* usize::saturating_sub(1).
SatSub1(n) == IF n = 0 THEN 0 ELSE n - 1

\* A copy length that forgets the room for the terminator.
QueryCopyLen_NoRoom(nbytes, len) == Min2(nbytes, len)

\* query_devices: n = bytes.len().min(len.saturating_sub(1)).
QueryCopyLen(nbytes, len) == Min2(nbytes, SatSub1(len))

\* query_devices: memory after the call: n bytes of the list copied when
\* n > 0, then buf[n] = 0 when len > 0.
QueryDevicesMem(list, len) ==
  LET n == QueryCopyLen(Len(list), len) IN
  [i \in MemCells |->
     IF i < n THEN list[i + 1]
     ELSE IF len > 0 /\ i = n THEN 0
     ELSE Untouched]

\* The host calls query_devices(buf, len) while the driver lists `list`.
QueryDevices ==
  /\ alive = "live" /\ d = NoData
  /\ \E list \in DeviceLists, len \in BufLens :
       d' = [op |-> "query", list |-> list, len |-> len,
             mem |-> QueryDevicesMem(list, len), rc |-> OA_OK]
  /\ UNCHANGED life_vars

\* Outcomes of openasio_driver_create(params, out). alsa17h and umc202hd
\* return INVALID_ARG for a null params, a null out and a null params.host;
\* cpal checks params and out only and then copies *p.host: with a null host
\* that read is undefined (the call crashes, or it goes on with whatever the
\* read gave, boxes a driver, writes *out and returns OK).
CreateRejected ==
  [rc |-> OA_ERR_INVALID_ARG, allocated |-> FALSE, out_written |-> FALSE,
   crashed |-> FALSE]
CreateDone ==
  [rc |-> OA_OK, allocated |-> TRUE, out_written |-> TRUE, crashed |-> FALSE]
CreateCrashed ==
  [rc |-> OA_OK, allocated |-> FALSE, out_written |-> FALSE, crashed |-> TRUE]

ChecksHostNull(k) == k \in PullKinds

CreateOutcomes(k, params_null, out_null, host_null) ==
  IF params_null \/ out_null THEN {CreateRejected}
  ELSE IF host_null
  THEN (IF ChecksHostNull(k) THEN {CreateRejected} ELSE {CreateCrashed, CreateDone})
  ELSE {CreateDone}

\* The host calls openasio_driver_create of the loaded library once more
\* (host_null is read only when params is a pointer).
CreateCall ==
  /\ alive = "live" /\ d = NoData
  /\ \E pn \in BOOLEAN, on \in BOOLEAN, hn \in BOOLEAN :
       /\ pn => ~hn
       /\ \E r \in CreateOutcomes(kind, pn, on, hn) :
            d' = [op |-> "create", params_null |-> pn, out_null |-> on,
                  host_null |-> hn, res |-> r]
  /\ UNCHANGED life_vars

\* f32 samples are written in halves (h stands for h / 2): -2.0, -0.5, 0.0,
\* 1.0 and 2.0 are the values a host writes.
HostSamples == {-4, -1, 0, 2, 4}

\* What a staging buffer that is not cleared holds from an earlier period.
Stale == 7

\* An f32_to_i32 that saturates but does not scale.
F32ToI32_NoScale(h) ==
  IF h >= 2 THEN I32_MAX
  ELSE IF h <= -2 THEN I32_MIN
  ELSE 0

\* f32_to_i32 (umc202hd): >= 1.0 gives i32::MAX, <= -1.0 gives i32::MIN,
\* else round(v * MAX), where the f32 constant MAX = 2147483647.0 is 2^31.
F32ToI32(h) ==
  IF h >= 2 THEN I32_MAX
  ELSE IF h <= -2 THEN I32_MIN
  ELSE h * 2^30

\* i32_to_f32 (umc202hd): (s as f32) * (1 / 2^31); i32::MAX as f32 is 2^31.
I32ToF32(s) == IF s = I32_MAX THEN 2 ELSE s \div 2^30

\* Channel counts a running stream can have (umc202hd: validate_config),
\* frames per period and layouts.
OutChans(k) == IF k = "umc202hd" THEN {2} ELSE {1, 2}
InChans(k) == IF k = "umc202hd" THEN {2} ELSE {1, 2}
FrameCounts == {1, 2}
Layouts == {"I", "N"}

\* The order in which the host's process fills the output: plane by plane or
\* frame by frame.
Orders == {"plane", "frame"}
NthWrite(order, och, frames, n) ==
  IF order = "plane" THEN [c |-> n \div frames, f |-> n % frames]
  ELSE [c |-> n % och, f |-> n \div och]

\* Non-interleaved output: offset of plane c in the memory the planes point
\* into. alsa17h: out_buf + c; umc202hd: scratch_out + c * frames; cpal:
\* SCRATCH + c * frames.
OutPlaneBase(k, c, frames) == IF k = "alsa17h" THEN c ELSE c * frames

\* Where the host's write of channel c, frame f lands in the memory out_ptr
\* leads to.
HostOutIndex(k, lay, och, frames, c, f) ==
  IF lay = "I" THEN f * och + c ELSE OutPlaneBase(k, c, frames) + f

\* The host's process writes w[c, f] for every channel and frame.
RECURSIVE HostWrites(_, _, _, _, _, _, _, _)
HostWrites(buf, k, lay, och, frames, w, order, n) ==
  IF n = och * frames THEN buf
  ELSE LET cf == NthWrite(order, och, frames, n)
           i == HostOutIndex(k, lay, och, frames, cf.c, cf.f)
       IN HostWrites([buf EXCEPT ![i] = w[<<cf.c, cf.f>>]],
                     k, lay, och, frames, w, order, n + 1)

\* Content of the memory out_ptr leads to when process is called: umc202hd
\* zero-fills it, alsa17h and cpal leave what was there.
PreFill(k) == IF k = "umc202hd" THEN 0 ELSE Stale

\* From the memory the host wrote to the interleaved f32 block: umc202hd and
\* cpal gather the planes of a non-interleaved period, block[f*och + c] =
\* scratch[c*frames + f]; alsa17h hands out_buf on as it is.
Destage(k, lay, och, frames, staged) ==
  IF lay = "N" /\ k # "alsa17h"
  THEN [i \in 0..(och * frames - 1) |-> staged[(i % och) * frames + (i \div och)]]
  ELSE staged

\* The block handed to the device: umc202hd converts to i32, alsa17h and
\* cpal deliver f32.
Deliver(k, block) ==
  [i \in DOMAIN block |-> IF k = "umc202hd" THEN F32ToI32(block[i]) ELSE block[i]]

\* The output half of one period: process writes w, the driver delivers dev.
PeriodOut ==
  /\ alive = "live" /\ d = NoData
  /\ \E lay \in Layouts, och \in OutChans(kind), frames \in FrameCounts,
        order \in Orders :
       \E w \in [(0..(och - 1)) \X (0..(frames - 1)) -> HostSamples] :
         LET pre == [i \in 0..(och * frames - 1) |-> PreFill(kind)]
             staged == HostWrites(pre, kind, lay, och, frames, w, order, 0)
         IN d' = [op |-> "out", lay |-> lay, och |-> och, frames |-> frames,
                  w |-> w,
                  dev |-> Deliver(kind, Destage(kind, lay, och, frames, staged))]
  /\ UNCHANGED life_vars

\* Whether the worker fills the output staging with 0.0 before it invokes
\* process (umc202hd: out_buf or scratch_out; alsa17h has no such fill).
ClearsStaging(k) == k = "umc202hd"

\* What earlier periods or an earlier stream left in the output staging, cell
\* by cell: 0.0 (never written since the resize that created the cell) or a
\* sample the host wrote.
LeftOvers(n) == [0..(n - 1) -> {0, Stale}]

\* The output staging as process finds it.
StagingAtProcess(k, left) ==
  [i \in DOMAIN left |-> IF ClearsStaging(k) THEN 0 ELSE left[i]]

\* A period of a pull-model worker in which the host's process writes
\* nothing: the staging goes to the device as process found it.
PeriodOutIdle ==
  /\ alive = "live" /\ d = NoData
  /\ kind \in PullKinds
  /\ \E lay \in Layouts, och \in OutChans(kind), frames \in FrameCounts :
       \E left \in LeftOvers(och * frames) :
         d' = [op |-> "idle", lay |-> lay, och |-> och, frames |-> frames,
               left |-> left,
               dev |-> Deliver(kind, Destage(kind, lay, och, frames,
                                             StagingAtProcess(kind, left)))]
  /\ UNCHANGED life_vars

\* Two driver instances of the loaded library, A and B, stream in
\* non-interleaved layout at the same time. Where the output planes of an
\* instance live: cpal's SCRATCH is a static of the library, one for every
\* stream of the process; umc202hd's scratch_out and alsa17h's out_buf are
\* fields of the instance.
Instances == {"A", "B"}
ScratchRegion(k, inst) == IF k = "cpal" THEN "static" ELSE inst

\* The sample the host of each instance writes to every cell (0.5 and -0.5).
InstanceSample == [A |-> 1, B |-> -1]

\* The steps of one period of an instance: "w" (the staging is prepared and
\* process writes the planes) and "g" (the planes are gathered and the block
\* is delivered), and the orders in which the steps of A and B can follow
\* one another.
Schedules ==
  { <<[i |-> "A", s |-> "w"], [i |-> "A", s |-> "g"], [i |-> "B", s |-> "w"], [i |-> "B", s |-> "g"]>>,
    <<[i |-> "A", s |-> "w"], [i |-> "B", s |-> "w"], [i |-> "A", s |-> "g"], [i |-> "B", s |-> "g"]>>,
    <<[i |-> "A", s |-> "w"], [i |-> "B", s |-> "w"], [i |-> "B", s |-> "g"], [i |-> "A", s |-> "g"]>>,
    <<[i |-> "B", s |-> "w"], [i |-> "A", s |-> "w"], [i |-> "A", s |-> "g"], [i |-> "B", s |-> "g"]>>,
    <<[i |-> "B", s |-> "w"], [i |-> "A", s |-> "w"], [i |-> "B", s |-> "g"], [i |-> "A", s |-> "g"]>>,
    <<[i |-> "B", s |-> "w"], [i |-> "B", s |-> "g"], [i |-> "A", s |-> "w"], [i |-> "A", s |-> "g"]>> }

\* Memory regions and delivered blocks after the first n steps of a schedule.
RECURSIVE TwoRun(_, _, _, _, _, _)
TwoRun(k, och, frames, sched, st, n) ==
  IF n = Len(sched) THEN st
  ELSE LET e == sched[n + 1]
           r == ScratchRegion(k, e.i)
           w == [cf \in (0..(och - 1)) \X (0..(frames - 1)) |-> InstanceSample[e.i]]
           pre == [i \in 0..(och * frames - 1) |->
                     IF ClearsStaging(k) THEN 0 ELSE st.mem[r][i]]
           next ==
             IF e.s = "w"
             THEN [st EXCEPT !.mem[r] =
                     HostWrites(pre, k, "N", och, frames, w, "plane", 0)]
             ELSE [st EXCEPT !.dev[e.i] =
                     Deliver(k, Destage(k, "N", och, frames, st.mem[r]))]
       IN TwoRun(k, och, frames, sched, next, n + 1)

\* One non-interleaved period of each of two instances that stream together.
TwoInstancePeriod ==
  /\ alive = "live" /\ d = NoData
  /\ \E och \in OutChans(kind), frames \in FrameCounts, sched \in Schedules :
       LET empty == [i \in 0..(och * frames - 1) |-> 0]
           st == TwoRun(kind, och, frames, sched,
                        [mem |-> [r \in {"A", "B", "static"} |-> empty],
                         dev |-> [i \in Instances |-> empty]], 0)
       IN d' = [op |-> "two", och |-> och, frames |-> frames, sched |-> sched,
                dev |-> st.dev]
  /\ UNCHANGED life_vars

\* in_buf.len() after the input callback has stored a block of data_len
\* samples: frames = data_len / max(in_channels, 1), len = frames * that, and
\* in_buf is resized to len when it is shorter.
InLenAfterInput(len, data_len, ich) ==
  LET ch == Max2(ich, 1)
      blk == (data_len \div ch) * ch
  IN IF len < blk THEN blk ELSE len

\* One output callback of a cpal stream started with buffer_frames bf: the
\* backend hands the output callback a block of n frames; before that the
\* input callback has stored a block of m frames, or has not fired (m = 0).
\* The callback passes frames and in_buf (in_len samples) to process.
OutputPeriodBounds ==
  /\ alive = "live" /\ d = NoData
  /\ kind = "cpal"
  /\ \E bf \in FrameCounts, ich \in InChans(kind), och \in OutChans(kind),
        n \in BackendFrames, m \in {0} \cup BackendFrames :
       LET c == MkCfg(48000, bf, ich, och, "F32", "I")
           len0 == InLen(c)
       IN d' = [op |-> "bounds", bf |-> bf, ich |-> ich, och |-> och,
                in_len |-> IF m = 0 THEN len0 ELSE InLenAfterInput(len0, m * ich, ich),
                frames |-> CallbackFrames(n * och, och)]
  /\ UNCHANGED life_vars

\* Samples a capture device delivers: i32 for umc202hd, f32 (in halves) for
\* alsa17h and cpal.
DevInSamples(k) ==
  IF k = "umc202hd" THEN {I32_MIN, -(2^30), 0, 2^30} ELSE {-2, -1, 0, 1}

\* The captured sample as it is stored in in_buf.
ToHost(k, s) == IF k = "umc202hd" THEN I32ToF32(s) ELSE s

\* Non-interleaved input: offset of plane c in in_buf (all three drivers:
\* in_buf.as_ptr() + c).
InPlaneBase(k, c) == c

\* Where the host's read of channel c, frame f lands in in_buf.
HostInIndex(k, lay, ich, c, f) ==
  IF lay = "I" THEN f * ich + c ELSE InPlaneBase(k, c) + f

\* The input half of one period: the device delivers cap, process sees seen.
PeriodIn ==
  /\ alive = "live" /\ d = NoData
  /\ \E lay \in Layouts, ich \in InChans(kind), frames \in FrameCounts :
       \E cap \in [0..(ich * frames - 1) -> DevInSamples(kind)] :
         LET in_buf == [i \in 0..(ich * frames - 1) |-> ToHost(kind, cap[i])]
         IN d' = [op |-> "in", lay |-> lay, ich |-> ich, frames |-> frames,
                  cap |-> cap,
                  seen |-> [cf \in (0..(ich - 1)) \X (0..(frames - 1)) |->
                              in_buf[HostInIndex(kind, lay, ich, cf[1], cf[2])]]]
  /\ UNCHANGED life_vars

\* ------------------------------------------------------------ specification
\* Steps of a pull-model worker thread.
WorkerStep(t) ==
  \/ WorkerTop(t)
  \/ WorkerRead(t)
  \/ WorkerCall(t)
  \/ WorkerProcessReturn(t)
  \/ WorkerWrite(t)

\* Steps of the backend thread of a cpal output stream.
CallbackStep(t) ==
  \/ OutputCallback(t)
  \/ OutputCallbackReturn(t)

\* The host makes a vtable call.
Calls ==
  \/ OpenDevice
  \/ StartCall
  \/ StopCall
  \/ CloseCall
  \/ DestroyCall
  \/ WrapperDropCall
  \/ MutatorCall

\* Steps of a vtable call in progress: the pull-model drivers (and the steps
\* all drivers share), then the cpal driver.
PullProgress ==
  \/ StartEntry
  \/ StopWorkerStore
  \/ StopWorkerJoin
  \/ StartConfigAlsa
  \/ StartOpen
  \/ StartSpawn
  \/ StopRelease
  \/ CloseRelease
  \/ DestroyFree
  \/ WrapperDropRelease

CpalProgress ==
  \/ StartConfigCpal
  \/ StartInput
  \/ StartOutput
  \/ StartAssign
  \/ DropOutStream
  \/ StopDropIn
  \/ CloseDropIn
  \/ DestroyDropIn
  \/ WrapperDropIn

Next ==
  \/ Calls
  \/ PullProgress
  \/ CpalProgress
  \/ InputCallback
  \/ \E t \in Tids : WorkerStep(t)
  \/ \E t \in Tids : CallbackStep(t)

Spec == Init /\ [][Next]_vars

\* The pull-model drivers alone, under a scheduler that runs every thread: a
\* worker that can take a step (a device read or write returns, process
\* returns) eventually takes it, and a vtable call in progress eventually
\* continues. The host keeps its callback table alive, so that every process
\* lookup is defined and every process invocation returns.
PullInit == Init /\ kind \in PullKinds /\ host_ptr # "dangling"

PullNext ==
  \/ Calls
  \/ PullProgress
  \/ \E t \in Tids : WorkerStep(t)

PullSpec ==
  /\ PullInit
  /\ [][PullNext]_vars
  /\ WF_vars(PullProgress)
  /\ \A t \in Tids : WF_vars(WorkerStep(t))

\* The data path alone: the calls and periods of a driver as functions of
\* their inputs.
DataNext ==
  \/ QueryDevices
  \/ CreateCall
  \/ PeriodOut
  \/ PeriodOutIdle
  \/ TwoInstancePeriod
  \/ OutputPeriodBounds
  \/ PeriodIn

DataSpec == Init /\ [][DataNext]_vars

\* ------------------------------------------------------------------ claims
Returned(op) == ctl_pc = "idle" /\ last.op = op

TiLeq(a, b) == a.underruns <= b.underruns /\ a.overruns <= b.overruns

\* C1: once stop or close_device has returned, no RT thread of the driver
\* exists that invokes or is inside process, until a later start has brought
\* up its stream.
C1_NoProcessAfterStop == g.quiet => LiveRT = {}

\* C1 witness: a stop that was called on a Running driver has returned.
C1_Witness == g.quiet /\ Returned("stop") /\ g.stop_from = "running"

\* C2: after a process invocation has returned false, the stream makes no
\* further process invocation and (pull-model) running is false.
C2_FalseStopsStream ==
  \A t \in Tids :
    rt[t].got_false =>
      /\ rt[t].pc # "in_process"
      /\ kind \in PullKinds => ~running

\* C3: when start goes on to configure or open anything, and when it returns
\* without having started a stream, no RT thread of an earlier stream is left.
C3_ImplicitStopFirst ==
  /\ (ctl_op = "start" /\ ctl_pc \in {"config", "open", "in", "out"}) => LiveRT = {}
  /\ (Returned("start") /\ last.rc # OA_OK) => LiveRT = {}

PullStopPending == kind \in PullKinds /\ ctl_op = "stop"
PullStopReturned == kind \in PullKinds /\ Returned("stop")

\* C4: every pull-model stop call returns, and when it has returned every
\* worker has read running = false and exited, and the handle is taken.
C4_StopTerminates ==
  /\ PullStopPending ~> PullStopReturned
  /\ [](PullStopReturned =>
          /\ worker = 0
          /\ \A t \in Tids : rt[t].pc \in {"none", "exited"}
          /\ \A t \in Tids : rt[t].pc = "exited" => rt[t].saw_false)

\* C4 witness: a pull-model stop called while Running has returned.
C4_Witness == PullStopReturned /\ g.stop_from = "running" /\ spawns > 0

\* C5: at most one RT thread of the driver can invoke process, and process
\* invocations never overlap.
C5_OneRTThread == Cardinality(LiveRT) <= 1 /\ Cardinality(InProcess) <= 1

\* C6: after destroy has returned no RT thread of the driver is alive, and no
\* RT thread ever touches the driver after it was freed.
C6_DestroyForcesStop ==
  /\ ~g.uaf
  /\ alive = "freed" => LiveRT = {}

\* C6 witness: destroy was called while the stream was Running and has freed
\* the driver.
C6_Witness == alive = "freed" /\ g.stop_from = "running"

\* C7 as stated: a stop called on a driver that is not Running returns OK and
\* leaves the driver state as it was at the call.
C7_StopNotRunningUnchanged ==
  (Returned("stop") /\ g.stop_from # "running") => (last.rc = OA_OK /\ g.stop_same)

\* C7 amended: stop returns OK; called on a driver with no stream and no
\* unreaped worker it changes nothing; and after any stop the driver is in
\* that state, so a second stop changes nothing.
C7_StopIdempotent ==
  Returned("stop") =>
    /\ last.rc = OA_OK
    /\ g.stop_from = "stopped" => g.stop_same
    /\ StopFrom = "stopped"
    /\ io = NoIo

\* C7 witness: a stop called on an already stopped driver that has a selected
\* device and has run a stream.
C7_Witness ==
  Returned("stop") /\ g.stop_from = "stopped" /\ spawns > 0 /\ dev_name # ""

\* C8: process is invoked once per period, with frames equal to the
\* buffer_frames of the config the stream was started with.
C8_FramesEqualBufferFrames ==
  \A t \in Tids :
    rt[t].pc = "in_process" =>
      rt[t].calls = 1 /\ rt[t].frames = rt[t].start_frames

\* C9 as stated: the reported counters never decrease within a stream and are
\* both zero in the first period.
C9_FirstPeriodZero ==
  \A t \in Tids :
    rt[t].pc = "in_process" =>
      /\ TiLeq(rt[t].prev_ti, rt[t].ti)
      /\ rt[t].first => (rt[t].ti.underruns = 0 /\ rt[t].ti.overruns = 0)

\* C9 amended: the reported counters never decrease within a stream and count
\* the xruns of this stream only: at every process call their sum is the
\* number of EPIPEs the stream has met so far, whatever an earlier stream left.
C9_CountersPerStream ==
  \A t \in Tids :
    rt[t].pc = "in_process" =>
      /\ TiLeq(rt[t].prev_ti, rt[t].ti)
      /\ rt[t].ti.underruns + rt[t].ti.overruns = rt[t].epipes

\* C9 witness: the first period of a stream started when the counters were
\* non-zero reports zeros.
C9_Witness ==
  \E t \in Tids :
    /\ rt[t].pc = "in_process" /\ rt[t].first /\ g.dirty
    /\ rt[t].ti.underruns = 0 /\ rt[t].ti.overruns = 0

\* C10: a UMC202HD start with a config outside the device matrix never gets
\* past its entry checks, returns UNSUPPORTED, opens no handle and spawns no
\* worker.
C10_OffMatrixUnsupported ==
  (kind = "umc202hd" /\ g.off_matrix) =>
    /\ ctl_op = "start" => ctl_pc = "entry"
    /\ Returned("start") =>
         (last.rc = OA_ERR_UNSUPPORTED /\ g.opened = 0 /\ ~g.spawned)

\* C10 witness: such a start has returned while an earlier stream runs on.
C10_Witness ==
  /\ kind = "umc202hd" /\ g.off_matrix /\ Returned("start")
  /\ last.rc = OA_ERR_UNSUPPORTED /\ running

\* C11: after close_device has returned the driver is Unopened: no RT thread,
\* no handles, no selected device, so that a later start opens the default
\* device.
C11_CloseClearsName ==
  Returned("close") =>
    /\ LiveRT = {} /\ io = NoIo
    /\ kind \in PullKinds => StartDeviceName = DefaultName(kind)
    /\ kind = "cpal" => (dev_name = "" /\ ~in_device)

\* C12: no RT thread looks up process through the host's table pointer, so
\* no RT thread reads a table the host has freed.
C12_NoReadThroughHostPointer ==
  \A t \in Tids :
    rt[t].pc \in {"in_process", "write"} =>
      /\ ~ReadsHostPointer(kind)
      /\ host_ptr # "dangling"

\* C13: a negative result code of open_device or start reaches the wrapper's
\* caller as Err, and the wrapper's start is Ok only for the code OK.
\* (INVALID_ARG answers a null cfg, which the wrapper never passes.)
C13_NegativeIsErr ==
  (ctl_pc = "idle" /\ last.op \in {"open_device", "start"}
     /\ last.rc # OA_ERR_INVALID_ARG) =>
    /\ last.rc < 0 => WrapperResult(last.op, last.rc) = "Err"
    /\ WrapperResult(last.op, last.rc) = "Ok" => last.rc = OA_OK

\* C14: when the drop of the wrapper has finished, the driver object has been
\* destroyed.
C14_DropDestroysOnce == Returned("drop") => alive = "freed"

\* C19: a mutator that returned UNSUPPORTED is not advertised by get_caps,
\* and the call left the driver state as it was.
C19_CapsMatchMutators ==
  \A op \in Mutators :
    (Returned(op) /\ last.rc = OA_ERR_UNSUPPORTED) =>
      /\ MutatorBit(op) \notin CAPS(kind)
      /\ g.stop_same

\* C20: a start called with a null cfg or with buffer_frames = 0 is turned
\* away by the entry checks with INVALID_ARG and gets no further.
C20_ZeroBufferInvalidArg ==
  (ctl_op = "start" /\ (ctl_arg.null \/ ctl_arg.c.buffer_frames = 0)) =>
    /\ ctl_pc = "entry"
    /\ alive = "live"
    /\ LET r == StartEntryCheck(kind, ctl_arg, TRUE)
       IN r.act = "return" /\ r.rc = OA_ERR_INVALID_ARG

\* C15: query_devices returns OK and writes min(|L|, len - 1) bytes of the
\* list and then one zero when len > 0, nothing when len = 0, and no cell at
\* or after index len.
C15_QueryDevicesTruncates ==
  d.op = "query" =>
    LET m == IF Len(d.list) < d.len - 1 THEN Len(d.list) ELSE d.len - 1 IN
    /\ d.rc = OA_OK
    /\ d.len = 0 => \A i \in MemCells : d.mem[i] = Untouched
    /\ d.len > 0 =>
         /\ \A i \in MemCells : i < m => d.mem[i] = d.list[i + 1]
         /\ d.mem[m] = 0
         /\ \A i \in MemCells : i > m => d.mem[i] = Untouched
    /\ \A i \in MemCells : i >= d.len => d.mem[i] = Untouched

\* C15 witness: a list longer than the buffer was truncated.
C15_Witness ==
  d.op = "query" /\ d.len >= 2 /\ Len(d.list) > d.len - 1 /\ d.mem[d.len - 1] = 0

\* The sample a delivered device value stands for, and the sample a driver is
\* to deliver for a host value v (a device that takes i32 saturates at 1.0).
Amplitude(k, x) == IF k = "umc202hd" THEN I32ToF32(x) ELSE x
Saturated(k, v) ==
  IF k # "umc202hd" THEN v
  ELSE IF v > 2 THEN 2 ELSE IF v < -2 THEN -2 ELSE v

\* C16: in non-interleaved layout the value the host writes to frame f of
\* plane c is delivered at interleaved index f * out_channels + c.
C16_PlanarOutputRoundTrip ==
  (d.op = "out" /\ d.lay = "N") =>
    \A c \in 0..(d.och - 1), f \in 0..(d.frames - 1) :
      Amplitude(kind, d.dev[f * d.och + c]) = Saturated(kind, d.w[<<c, f>>])

\* C17: in non-interleaved layout frame f of input plane c is the captured
\* sample at interleaved index f * in_channels + c.
C17_PlanarInput ==
  (d.op = "in" /\ d.lay = "N") =>
    \A c \in 0..(d.ich - 1), f \in 0..(d.frames - 1) :
      d.seen[<<c, f>>] = ToHost(kind, d.cap[f * d.ich + c])

C21_CreateRejectsNull ==
  (d.op = "create" /\ (d.params_null \/ d.out_null \/ d.host_null)) =>
    d.res = CreateRejected

\* C22: as long as neither open_device nor start has been called on a driver
\* (up to and after its destroy), it holds no device handle, has opened no
\* device, has no stream and has never had an RT thread, so that no device
\* read or write has been made.
C22_UnusedDriverDoesNothing ==
  ~g.used =>
    /\ io = NoIo /\ g.opened = 0
    /\ worker = 0 /\ out_stream = 0 /\ in_stream = 0
    /\ spawns = 0 /\ \A t \in Tids : rt[t].pc = "none"

\* C22 witness: a driver was destroyed without an open_device or a start.
C22_Witness == alive = "freed" /\ ~g.used /\ Returned("destroy")

\* C23: when a pull-model worker is back at its loop head after a process
\* invocation that returned false, the block of that period has been written
\* to the playback device: every process invocation of the stream has its
\* write before the worker leaves the loop.
C23_FalsePeriodDelivered ==
  \A t \in Tids :
    (kind \in PullKinds /\ rt[t].pc = "top" /\ rt[t].got_false) => rt[t].delivered

\* The steps in which a capture read / a playback write returns EPIPE.
CaptureEpipe(t) == rt[t].pc = "read" /\ rt'[t].epipes = rt[t].epipes + 1
PlaybackEpipe(t) == rt[t].pc = "write" /\ rt'[t].epipes = rt[t].epipes + 1

\* C24: every EPIPE of the capture read increments overruns by exactly 1 and
\* leaves underruns unchanged, in both pull-model drivers.
C24_CaptureEpipeCountsOverrun ==
  [][\A t \in Tids :
       CaptureEpipe(t) => (overruns' = overruns + 1 /\ underruns' = underruns)]_vars

\* C25: every EPIPE of the playback write increments underruns by exactly 1,
\* leaves overruns unchanged and does not stop the stream: running is left as
\* it was and the worker goes back to its loop head for the next period.
C25_PlaybackEpipeCountsUnderrun ==
  [][\A t \in Tids :
       PlaybackEpipe(t) =>
         /\ underruns' = underruns + 1 /\ overruns' = overruns
         /\ running' = running
         /\ rt'[t].pc = "top"]_vars

\* C25 witness: in a period after a playback EPIPE (umc202hd counts underruns
\* for nothing else) the stream is running and process is invoked with
\* underruns = 1.
C25_Witness ==
  \E t \in Tids :
    /\ kind = "umc202hd" /\ running /\ rt[t].pc = "in_process"
    /\ rt[t].ti.underruns = 1 /\ rt[t].ti.overruns = 0 /\ rt[t].epipes = 1

\* C26: once a device read or write of an RT thread has failed with an error
\* other than EPIPE, running is false and the thread is not on its way to
\* another process invocation or another period.
C26_FatalStops ==
  \A t \in Tids :
    rt[t].fatal => (~running /\ rt[t].pc \notin {"top", "read", "call", "in_process"})

\* C27: in a period of a pull-model worker where the host's process writes
\* nothing, the block delivered to the device is all zeros, whatever was left
\* in the staging buffer.
C27_IdlePeriodIsSilence ==
  d.op = "idle" => \A i \in DOMAIN d.dev : d.dev[i] = 0

\* C28: whenever a stream is Running, the staging buffers have the lengths of
\* the running config: in_buf buffer_frames * max(in_channels, 1) and (the
\* pull-model drivers, which have one) out_buf buffer_frames * out_channels.
C28_BufferLengthsMatchCfg ==
  StopFrom = "running" =>
    /\ in_buf_len = InLen(cfg)
    /\ kind \in PullKinds => out_buf_len = OutLen(cfg)

\* C29: while an RT thread of a stream exists (from the start that brought
\* it up to the stop that ends it), and in particular while process is being
\* invoked, no step resizes a staging buffer, so the buffers and the plane
\* bases computed from them stay where they are.
C29_NoResizeWhileRunning ==
  [][LiveRT # {} =>
       (in_buf_len' = in_buf_len /\ out_buf_len' = out_buf_len)]_vars

\* C30: in an output period of the newest cpal stream, with an input block
\* handed to process (in_channels > 0) and no input callback fired since the
\* start that brought the stream up, that input block is all zeros.
C30_NoInputMeansZeros ==
  \A t \in Tids :
    ( /\ kind = "cpal" /\ rt[t].pc = "in_process" /\ t = spawns
      /\ ~(ctl_op = "start" /\ ctl_pc \in {"in", "out"})
      /\ cfg.in_channels > 0 /\ in_seq = 0 )
    => in_data = "zeros"

\* C31: when two instances stream in non-interleaved layout at the same time,
\* no cell of the block an instance delivers holds the sample the other
\* instance's host wrote.
C31_ScratchPerStream ==
  d.op = "two" =>
    \A inst \in Instances, other \in Instances :
      inst # other =>
        \A i \in DOMAIN d.dev[inst] :
          Amplitude(kind, d.dev[inst][i]) # InstanceSample[other]

\* C32: once the wrapper has freed its thunk, no RT thread of the driver
\* exists, so no process invocation can dereference the thunk after that;
\* this includes a wrapper dropped while the stream was Running.
C32_ThunkOutlivesUse ==
  ThunkFreed => (LiveRT = {} /\ InProcess = {})

\* C32 witness: the wrapper was dropped while the stream was Running, and
\* its thunk is freed.
C32_Witness ==
  ThunkFreed /\ Returned("drop") /\ g.stop_from = "running" /\ spawns > 0

\* C33: whenever a pull-model start has returned DEVICE or BACKEND, running
\* is false, no worker exists, the driver holds no device handle and no
\* handle opened by that start is still open.
C33_FailedStartIsClean ==
  (kind \in PullKinds /\ Returned("start")
     /\ last.rc \in {OA_ERR_DEVICE, OA_ERR_BACKEND}) =>
    /\ ~running /\ worker = 0 /\ LiveRT = {}
    /\ io = NoIo
    /\ g.unreleased = 0

\* C33 witness: a start called while Running opened both handles, failed in
\* hw_setup and returned BACKEND.
C33_Witness ==
  /\ kind \in PullKinds /\ Returned("start") /\ last.rc = OA_ERR_BACKEND
  /\ g.opened = 2 /\ g.stop_from = "running"

\* A step that leaves what a worker uses alone while a worker exists.
WorkerUndisturbed ==
  LiveRT # {} =>
    /\ io' = io /\ cfg' = cfg
    /\ in_buf_len' = in_buf_len /\ out_buf_len' = out_buf_len
    /\ alive' # "freed"

\* A step that creates a worker finds its resources installed and leaves
\* them as they are.
SpawnFindsInstalled ==
  \A t \in Tids :
    (rt[t].pc = "none" /\ rt'[t].pc # "none") =>
      /\ io.pb /\ running /\ cfg = ctl_arg.c
      /\ io.cap = (cfg.in_channels > 0)
      /\ in_buf_len = InLen(cfg) /\ out_buf_len = OutLen(cfg)
      /\ io' = io /\ cfg' = cfg
      /\ in_buf_len' = in_buf_len /\ out_buf_len' = out_buf_len

\* C34: in the pull-model drivers no step changes or drops the handles, the
\* config or the staging buffers, or frees the driver, while a worker exists;
\* and the step that spawns a worker finds the handles, the config of this
\* start, the buffers sized for it and running = true already installed.
C34_ResourceOrdering ==
  [][(kind \in PullKinds) => (WorkerUndisturbed /\ SpawnFindsInstalled)]_vars

\* C34 witness: the worker is in the middle of a period, about to write to
\* the playback handle, while stop has stored running = false and waits in
\* join; the handles are still installed.
C34_Witness ==
  /\ kind \in PullKinds /\ ctl_op = "stop" /\ ctl_pc = "join" /\ ~running
  /\ io.pb /\ \E t \in Tids : rt[t].pc = "write" /\ worker = t

\* C35: in every cpal output callback with in_channels > 0 the input staging
\* buffer handed to process holds at least frames * in_channels samples, for
\* the frames value passed to process.
C35_InputCoversFrames ==
  (d.op = "bounds" /\ d.ich > 0) => d.in_len >= d.frames * d.ich
====
